---- MODULE Spec2Model ----
(***************************************************************************)
(* Model of the PETSS storm-tide post-processing pipeline:                 *)
(*   scripts/compute.py       BiasState, load_bias, save_bias, update_bias *)
(*   scripts/coops_fetch.py   _parse_any_petss_csv, extract_station_series,*)
(*                            compute_exceedance_probs, pick_peak_window   *)
(*   scripts/run_waveland.py  main                                         *)
(*                                                                         *)
(* float64 quantities are modelled as exact rationals <<num, den>> in      *)
(* lowest terms with den > 0.  Times are integer ticks of 6 minutes        *)
(* (360 s), so that an hour is 10 ticks.                                   *)
(***************************************************************************)
EXTENDS Integers, Sequences, FiniteSets, TLC

VARIABLES
    pc,          \* position of the run inside main / inside the function under study
    runs,        \* number of runs started so far
    exc,         \* exception that ended the run, "" when none
    bias_file,   \* content of data/bias/<station>_bias.json on disk
    objs,        \* BiasState objects allocated by the current run (heap)
    bias_state,  \* main's local bias_state: index into objs, 0 when unbound
    new_error,   \* main's local new_error (None when no verification was made)
    csvs,        \* extract_csvs_from_tarball's result: sequence of sources
    thresholds,  \* minor_ft, moderate_ft, major_ft and thresholds_source
    obs_df,      \* observations frame built by _coops_obs_to_df
    now,         \* _utc_now() of the run, in ticks
    petss_df,    \* main's station ensemble frame
    df,          \* the frame handed to compute_exceedance_probs
    prob_ts,     \* exceedance table
    trend_adj,   \* projected 6 h trend adjustment
    trend_used,  \* whether a trend was fitted
    min_prob,    \* gate handed to pick_peak_window
    peak,        \* pick_peak_window's result [start, end, peak]
    peak_probs,  \* p_minor, p_mod, p_maj at the peak
    rec,         \* recommendation string
    conf,        \* confidence index
    outputs      \* files written under outputs/

ctlVars == <<pc, runs, exc>>
biasVars == <<bias_file, objs, bias_state, new_error>>
inputVars == <<csvs, thresholds, obs_df, now>>
frameVars == <<petss_df, df, prob_ts>>
trendVars == <<trend_adj, trend_used>>
peakVars == <<min_prob, peak, peak_probs, rec, conf>>
vars == <<ctlVars, biasVars, inputVars, frameVars, trendVars, peakVars, outputs>>

None == <<"None">>

\* initial value of the variables a specification does not use
NoBias == bias_file = None /\ objs = <<>> /\ bias_state = 0 /\ new_error = None
NoInputs == csvs = None /\ thresholds = None /\ obs_df = None /\ now = None
NoFrames == petss_df = None /\ df = None /\ prob_ts = None
NoTrend == trend_adj = None /\ trend_used = FALSE
NoPeak == min_prob = None /\ peak = None /\ peak_probs = None /\ rec = None /\ conf = None
NoOutputs == outputs = {}

(***************************************************************************)
(* Exact rational arithmetic standing for float64 arithmetic.              *)
(***************************************************************************)
RECURSIVE GCD(_, _)
GCD(a, b) == IF b = 0 THEN a ELSE GCD(b, a % b)

Abs(k) == IF k < 0 THEN -k ELSE k

RECURSIVE Rat(_, _)
Rat(num, den) ==
    IF den < 0 THEN Rat(-num, -den)
    ELSE LET g == GCD(Abs(num), den)
         IN  <<num \div g, den \div g>>

RInt(k) == <<k, 1>>
RAdd(a, b) ==
    IF a[2] = b[2] THEN Rat(a[1] + b[1], a[2])
    ELSE LET g == GCD(a[2], b[2])
         IN  Rat(a[1] * (b[2] \div g) + b[1] * (a[2] \div g), (a[2] \div g) * b[2])
RNeg(a) == <<-a[1], a[2]>>
RSub(a, b) == RAdd(a, RNeg(b))
RMul(a, b) ==
    IF a[1] = 0 \/ b[1] = 0 THEN RInt(0)
    ELSE LET g1 == GCD(Abs(a[1]), b[2])
             g2 == GCD(Abs(b[1]), a[2])
         IN  Rat((a[1] \div g1) * (b[1] \div g2), (a[2] \div g2) * (b[2] \div g1))
RDiv(a, b) == RMul(a, Rat(b[2], b[1]))
RLe(a, b) == a[1] * b[2] <= b[1] * a[2]
RLt(a, b) == a[1] * b[2] < b[1] * a[2]
RAbs(a) == <<Abs(a[1]), a[2]>>
RMin(a, b) == IF RLe(a, b) THEN a ELSE b
RMax(a, b) == IF RLe(a, b) THEN b ELSE a
IntMin(a, b) == IF a <= b THEN a ELSE b

(***************************************************************************)
(* Bias state store (scripts/compute.py).                                  *)
(***************************************************************************)
\* default of update_bias's max_n parameter
DefaultMaxN == 60

\* dataclass BiasState(rolling_bias_ft: float = 0.0, n: int = 0)
BiasState(rolling, n) == [rolling_bias_ft |-> rolling, n |-> n]

\* Contents of the bias file: missing, unreadable, or a JSON object whose
\* fields are whatever was written there (load_bias validates nothing).
FileAbsent == [kind |-> "absent", rolling_bias_ft |-> RInt(0), n |-> 0]
FileCorrupt == [kind |-> "corrupt", rolling_bias_ft |-> RInt(0), n |-> 0]
FileJson(rolling, n) == [kind |-> "json", rolling_bias_ft |-> rolling, n |-> n]

\* load_bias: a fresh state when the file is missing or unreadable, else the
\* file's fields converted with float() and int(), unchecked.
load_bias(file) ==
    IF file.kind = "json"
    THEN BiasState(file.rolling_bias_ft, file.n)
    ELSE BiasState(RInt(0), 0)

\* save_bias: the file becomes the JSON dump of the state.
save_bias(state) == FileJson(state.rolling_bias_ft, state.n)

\* update_bias's outcome: exc = "" and the new BiasState in value, or the
\* exception it raises (n = 0 divides by zero when state.n = -1).
Returned(v) == [exc |-> "", value |-> v]
Raised(e, v) == [exc |-> e, value |-> v]

update_bias_always_average(state, new_error_ft, max_n) ==
    LET n == IntMin(state.n + 1, max_n)
    IN  IF n = 0 THEN Raised("ZeroDivisionError", state)
        ELSE Returned(BiasState(RDiv(RAdd(RMul(state.rolling_bias_ft, RInt(state.n)),
                                          new_error_ft), RInt(n)), n))

update_bias(state, new_error_ft, max_n) ==
    LET n == IntMin(state.n + 1, max_n)
    IN  IF state.n < max_n
        THEN IF n = 0 THEN Raised("ZeroDivisionError", state)
             ELSE Returned(BiasState(RDiv(RAdd(RMul(state.rolling_bias_ft, RInt(state.n)),
                                               new_error_ft), RInt(n)), n))
        ELSE LET alpha == Rat(1, max_n)
             IN  Returned(BiasState(RAdd(RMul(RSub(RInt(1), alpha), state.rolling_bias_ft),
                                         RMul(alpha, new_error_ft)), n))

\* The call update_bias(bias_state, ...) on the heap: line 46 builds a new
\* BiasState object and the argument object is left alone.
call_update_bias(heap, ref, new_error_ft, max_n) ==
    LET r == update_bias(heap[ref], new_error_ft, max_n)
    IN  [exc |-> r.exc,
         objs |-> IF r.exc = "" THEN Append(heap, r.value) ELSE heap,
         ref |-> IF r.exc = "" THEN Len(heap) + 1 ELSE ref]

(***************************************************************************)
(* SpecBias: the life of the bias file over successive runs, reduced to    *)
(* what main does with it: load (line 85), at most one update (line 103),  *)
(* save as the last statement (line 234).                                  *)
(***************************************************************************)
\* number of successive runs explored
MaxRuns == 2

\* n fields a bias file may hold: any integer; these straddle 0 and max_n
FileNs == {-2, -1, 0, 1, DefaultMaxN - 1, DefaultMaxN, DefaultMaxN + 1}
FileRollings == {RInt(0), Rat(1, 2)}
BiasFiles == {FileAbsent, FileCorrupt}
             \cup {FileJson(r, n) : r \in FileRollings, n \in FileNs}

\* forecast-minus-observed errors a verification can produce
Errors == {RInt(-1), Rat(1, 4), RInt(2)}

InitBias ==
    /\ pc = "bias_start"
    /\ runs = 1
    /\ bias_file \in BiasFiles
    /\ objs = <<>>
    /\ bias_state = 0
    /\ new_error = None
    /\ exc = ""
    /\ NoInputs /\ NoFrames /\ NoTrend /\ NoPeak /\ NoOutputs

\* bias_state = load_bias(bias_path)
BiasRunLoad ==
    /\ pc = "bias_start"
    /\ objs' = Append(objs, load_bias(bias_file))
    /\ bias_state' = Len(objs) + 1
    /\ pc' = "bias_loaded"
    /\ UNCHANGED <<runs, bias_file, new_error, exc>>
    /\ UNCHANGED <<inputVars, frameVars, trendVars, peakVars, outputs>>

\* an overlap of forecast and observations exists: one update_bias call
BiasRunUpdate ==
    /\ pc = "bias_loaded"
    /\ \E e \in Errors :
         LET r == call_update_bias(objs, bias_state, e, DefaultMaxN)
         IN  /\ new_error' = e
             /\ objs' = r.objs
             /\ bias_state' = r.ref
             /\ exc' = r.exc
             /\ pc' = IF r.exc = "" THEN "bias_updated" ELSE "bias_raised"
    /\ UNCHANGED <<runs, bias_file>>
    /\ UNCHANGED <<inputVars, frameVars, trendVars, peakVars, outputs>>

\* no observations, or no overlap: the loaded state is kept
BiasRunNoUpdate ==
    /\ pc = "bias_loaded"
    /\ pc' = "bias_kept"
    /\ UNCHANGED <<runs, bias_file, objs, bias_state, new_error, exc>>
    /\ UNCHANGED <<inputVars, frameVars, trendVars, peakVars, outputs>>

\* save_bias(bias_path, bias_state)
BiasRunSave ==
    /\ pc \in {"bias_updated", "bias_kept"}
    /\ bias_file' = save_bias(objs[bias_state])
    /\ pc' = "bias_saved"
    /\ UNCHANGED <<runs, objs, bias_state, new_error, exc>>
    /\ UNCHANGED <<inputVars, frameVars, trendVars, peakVars, outputs>>

\* the next scheduled run is a new process
BiasRunNext ==
    /\ pc \in {"bias_saved", "bias_raised"}
    /\ runs < MaxRuns
    /\ runs' = runs + 1
    /\ pc' = "bias_start"
    /\ objs' = <<>>
    /\ bias_state' = 0
    /\ new_error' = None
    /\ exc' = ""
    /\ UNCHANGED bias_file
    /\ UNCHANGED <<inputVars, frameVars, trendVars, peakVars, outputs>>

NextBias == BiasRunLoad \/ BiasRunUpdate \/ BiasRunNoUpdate \/ BiasRunSave \/ BiasRunNext

SpecBias == InitBias /\ [][NextBias]_vars

\* C1: every BiasState a run holds satisfies 0 <= n <= max_n, whatever the
\* bias file contains and over any sequence of runs.
C1_BiasCountInRange ==
    \A i \in DOMAIN objs : 0 <= objs[i].n /\ objs[i].n <= DefaultMaxN

\* C2: update_bias returns n' = min(n + 1, max_n); below max_n the rolling
\* bias is the cumulative average (n' * rolling' = rolling * n + e), at or
\* above max_n the exponential moving average with alpha = 1/max_n
\* (max_n * rolling' = (max_n - 1) * rolling + e); the state passed in keeps
\* its fields.
C2_UpdateRule ==
    pc = "bias_updated" =>
        LET old == objs[1]
            new == objs[bias_state]
        IN  /\ bias_state = 2
            /\ old = load_bias(bias_file)
            /\ new.n = IF old.n + 1 <= DefaultMaxN THEN old.n + 1 ELSE DefaultMaxN
            /\ IF old.n < DefaultMaxN
               THEN RMul(RInt(new.n), new.rolling_bias_ft)
                      = RAdd(RMul(old.rolling_bias_ft, RInt(old.n)), new_error)
               ELSE RMul(RInt(DefaultMaxN), new.rolling_bias_ft)
                      = RAdd(RMul(RInt(DefaultMaxN - 1), old.rolling_bias_ft), new_error)

C2_Witness_Saturated ==
    /\ pc = "bias_updated"
    /\ objs[1].n >= DefaultMaxN
    /\ objs[1].rolling_bias_ft # objs[2].rolling_bias_ft

(***************************************************************************)
(* pandas frames: column labels (duplicates allowed, as in pandas), one    *)
(* dtype per column, and rows as tuples of cells in column order.          *)
(***************************************************************************)
Frame(labels, dtypes, rows) == [labels |-> labels, dtypes |-> dtypes, rows |-> rows]

\* pd.DataFrame()
EmptyFrame == Frame(<<>>, <<>>, <<>>)

\* DataFrame.empty
IsEmpty(d) == Len(d.labels) = 0 \/ Len(d.rows) = 0

\* the positions of the columns labelled l, in column order
Positions(d, l) == SelectSeq([i \in 1..Len(d.labels) |-> i], LAMBDA i : d.labels[i] = l)

HasCol(d, l) == Positions(d, l) # <<>>

\* row[l] for a label that names one column
At(d, row, l) == row[Positions(d, l)[1]]

\* d[l] = values, appended as a new column (l is not yet a label of d)
WithColumn(d, l, dtype, values) ==
    Frame(Append(d.labels, l), Append(d.dtypes, dtype),
          [k \in 1..Len(d.rows) |-> Append(d.rows[k], values[k])])

\* DataFrame.rename(columns={from: to}): labels are replaced and nothing
\* checks that the new label is already in use
Rename(d, from, to) ==
    Frame([i \in 1..Len(d.labels) |-> IF d.labels[i] = from THEN to ELSE d.labels[i]],
          d.dtypes, d.rows)

RECURSIVE RSumRange(_, _, _)
RSumRange(s, lo, hi) ==
    IF lo > hi THEN RInt(0)
    ELSE IF lo = hi THEN s[lo]
    ELSE LET mid == (lo + hi) \div 2
         IN  RAdd(RSumRange(s, lo, mid), RSumRange(s, mid + 1, hi))

\* Series.sum()
RSum(s) == RSumRange(s, 1, Len(s))

\* Series.mean()
Mean(s) == RDiv(RSum(s), RInt(Len(s)))

\* integers of a finite set in ascending order
RECURSIVE Ascending(_)
Ascending(S) ==
    IF S = {} THEN <<>>
    ELSE LET m == CHOOSE x \in S : \A y \in S : x <= y
         IN  <<m>> \o Ascending(S \ {m})

\* Series.quantile(qn/qd), interpolation "linear": position q*(n-1) among the
\* order statistics, interpolated between its two neighbours
QuantileLower(s, qn, qd) ==
    LET sorted == SortSeq(s, RLt)
        lo == (qn * (Len(s) - 1)) \div qd
    IN  sorted[lo + 1]

Quantile(s, qn, qd) ==
    LET sorted == SortSeq(s, RLt)
        n == Len(s)
        lo == (qn * (n - 1)) \div qd
        frac == Rat((qn * (n - 1)) % qd, qd)
    IN  IF lo + 1 >= n THEN sorted[n]
        ELSE RAdd(sorted[lo + 1], RMul(frac, RSub(sorted[lo + 2], sorted[lo + 1])))

(***************************************************************************)
(* Exceedance probability engine (scripts/coops_fetch.py).                 *)
(***************************************************************************)
\* prob_exceed: 100.0 * (values >= thr).mean()
prob_exceed_strict(values, thr) ==
    RMul(RInt(100), Rat(Len(SelectSeq(values, LAMBDA v : RLt(thr, v))), Len(values)))

prob_exceed(values, thr) ==
    RMul(RInt(100), Rat(Len(SelectSeq(values, LAMBDA v : RLe(thr, v))), Len(values)))

ExceedLabels ==
    <<"valid_time", "p_minor", "p_moderate", "p_major", "mean_ft", "p10_ft", "p90_ft",
      "n_members">>

\* One row per group of equal valid_time, groups in ascending key order.
\* g["stormtide_ft"] is a Series when one column carries that label and a
\* DataFrame when several do; then every statistic is a Series with one entry
\* per such column and the cell holds that object (dtype object).
compute_exceedance_probs(d, minor_ft, moderate_ft, major_ft) ==
    IF IsEmpty(d) THEN EmptyFrame
    ELSE
    LET vt == Positions(d, "valid_time")[1]
        cols == Positions(d, "stormtide_ft")
        single == Len(cols) = 1
        times == Ascending({d.rows[k][vt] : k \in 1..Len(d.rows)})
        group(tm) == SelectSeq(d.rows, LAMBDA r : r[vt] = tm)
        values(g, c) == [k \in 1..Len(g) |-> g[k][c]]
        stat(g, F(_)) ==
            IF single THEN F(values(g, cols[1]))
            ELSE [j \in 1..Len(cols) |-> F(values(g, cols[j]))]
        row(tm) ==
            LET g == group(tm)
            IN  <<tm,
                  stat(g, LAMBDA s : prob_exceed(s, minor_ft)),
                  stat(g, LAMBDA s : prob_exceed(s, moderate_ft)),
                  stat(g, LAMBDA s : prob_exceed(s, major_ft)),
                  stat(g, LAMBDA s : Mean(s)),
                  stat(g, LAMBDA s : Quantile(s, 1, 10)),
                  stat(g, LAMBDA s : Quantile(s, 9, 10)),
                  Len(g)>>
        kind == IF single THEN "float64" ELSE "object"
    IN  Frame(ExceedLabels,
              <<"datetime64", kind, kind, kind, kind, kind, kind, "int64">>,
              [i \in 1..Len(times) |-> row(times[i])])

\* Timestamp.to_pydatetime().isoformat().replace("+00:00", "Z"): the time as
\* an ISO-8601 string, and pd.to_datetime of such a string
IsoFormat(t) == <<"iso", t>>
ParseIso(str) == str[2]

\* Series.idxmax() over the rows at positions ks (ascending): the first
\* position holding the largest value
IdxMax(d, ks, l) ==
    CHOOSE k \in ks :
        /\ \A j \in ks : RLe(At(d, d.rows[j], l), At(d, d.rows[k], l))
        /\ \A j \in ks : j < k => RLt(At(d, d.rows[j], l), At(d, d.rows[k], l))

PeakWindow(start, end, peak_time) == [start |-> start, end |-> end, peak |-> peak_time]

pick_peak_window_global_peak(p, gate) ==
    IF IsEmpty(p) THEN PeakWindow(None, None, None)
    ELSE
    LET all == 1..Len(p.rows)
        sel == {k \in all : RLe(gate, At(p, p.rows[k], "p_minor"))}
        time(k) == At(p, p.rows[k], "valid_time")
    IN  IF sel = {}
        THEN PeakWindow(None, None, IsoFormat(time(IdxMax(p, all, "mean_ft"))))
        ELSE PeakWindow(
                IsoFormat(CHOOSE t \in {time(k) : k \in sel} : \A k \in sel : t <= time(k)),
                IsoFormat(CHOOSE t \in {time(k) : k \in sel} : \A k \in sel : t >= time(k)),
                IsoFormat(time(IdxMax(p, all, "mean_ft"))))

pick_peak_window(p, gate) ==
    IF IsEmpty(p) THEN PeakWindow(None, None, None)
    ELSE
    LET all == 1..Len(p.rows)
        sel == {k \in all : RLe(gate, At(p, p.rows[k], "p_minor"))}
        time(k) == At(p, p.rows[k], "valid_time")
    IN  IF sel = {}
        THEN PeakWindow(None, None, IsoFormat(time(IdxMax(p, all, "mean_ft"))))
        ELSE PeakWindow(
                IsoFormat(CHOOSE t \in {time(k) : k \in sel} : \A k \in sel : t <= time(k)),
                IsoFormat(CHOOSE t \in {time(k) : k \in sel} : \A k \in sel : t >= time(k)),
                IsoFormat(time(IdxMax(p, sel, "mean_ft"))))

(***************************************************************************)
(* SpecExceed: compute_exceedance_probs and pick_peak_window as functions  *)
(* of a station series table, three thresholds and a gate.                 *)
(***************************************************************************)
\* most rows of a two-timestamp table
MaxRows == 11
\* most timestamps of a table of small groups
MaxTimes == 3

Station == "8747437"
SeriesLabels == <<"station_id", "valid_time", "member", "stormtide_ft">>
SeriesDtypes == <<"object", "datetime64", "object", "float64">>

\* the members of one timestamp, from their values
GroupRows(tm, values) == [i \in 1..Len(values) |-> <<Station, tm, i, values[i]>>]

\* c members of which the last k are high
TwoLevel(c, k) == [i \in 1..c |-> IF i > c - k THEN RInt(3) ELSE RInt(1)]

RECURSIVE Concat(_)
Concat(ss) == IF ss = <<>> THEN <<>> ELSE ss[1] \o Concat(Tail(ss))

Reverse(s) == [i \in 1..Len(s) |-> s[Len(s) + 1 - i]]

\* two timestamps, many members on two levels
DeepTables ==
    {Frame(SeriesLabels, SeriesDtypes,
           GroupRows(10, TwoLevel(c[1], k[1])) \o GroupRows(20, TwoLevel(c[2], k[2]))) :
        c \in {x \in (0..MaxRows) \X (0..MaxRows) : x[1] + x[2] <= MaxRows},
        k \in {x \in (0..MaxRows) \X (0..MaxRows) : x[1] + x[2] <= MaxRows}}

Shapes ==
    {<<>>, <<RInt(1)>>, <<RInt(2)>>, <<RInt(3)>>, <<RInt(1), RInt(2)>>,
     <<RInt(1), RInt(3), RInt(3)>>}

\* several timestamps, few members, in time order or reversed
WideTables ==
    {Frame(SeriesLabels, SeriesDtypes,
           LET rows == Concat([i \in 1..MaxTimes |-> GroupRows(10 * i, f[i])])
           IN  IF rev THEN Reverse(rows) ELSE rows) :
        f \in [1..MaxTimes -> Shapes], rev \in BOOLEAN}

Thresholds(minor, moderate, major, source) ==
    [minor_ft |-> minor, moderate_ft |-> moderate, major_ft |-> major, source |-> source]

ThresholdChoices ==
    {Thresholds(RInt(2), RInt(3), RInt(4), "override"),
     Thresholds(RInt(1), RInt(2), RInt(3), "mdapi")}

Gates == {RInt(40), RInt(100)}

InitExceed ==
    /\ pc = "exceed_start"
    /\ runs = 1
    /\ exc = ""
    /\ df \in DeepTables \cup WideTables
    /\ thresholds \in ThresholdChoices
    /\ min_prob \in Gates
    /\ petss_df = None /\ prob_ts = None
    /\ peak = None /\ peak_probs = None /\ rec = None /\ conf = None
    /\ csvs = None /\ obs_df = None /\ now = None
    /\ NoBias /\ NoTrend /\ NoOutputs

ExceedCompute ==
    /\ pc = "exceed_start"
    /\ prob_ts' = compute_exceedance_probs(df, thresholds.minor_ft, thresholds.moderate_ft,
                                           thresholds.major_ft)
    /\ pc' = "exceed_done"
    /\ UNCHANGED <<runs, exc, biasVars, inputVars, petss_df, df, trendVars, peakVars, outputs>>

ExceedPickPeak ==
    /\ pc = "exceed_done"
    /\ peak' = pick_peak_window(prob_ts, min_prob)
    /\ pc' = "peak_done"
    /\ UNCHANGED <<runs, exc, biasVars, inputVars, frameVars, trendVars, outputs>>
    /\ UNCHANGED <<min_prob, peak_probs, rec, conf>>

NextExceed == ExceedCompute \/ ExceedPickPeak

SpecExceed == InitExceed /\ [][NextExceed]_vars

ExceedComputed == pc \in {"exceed_done", "peak_done"}

\* the rows of df at time tm, and those among them at or above level
RowsAt(tm) == {k \in 1..Len(df.rows) : At(df, df.rows[k], "valid_time") = tm}
RowsAtOrAbove(tm, level) ==
    {k \in RowsAt(tm) : RLe(level, At(df, df.rows[k], "stormtide_ft"))}
InputTimes == {At(df, df.rows[k], "valid_time") : k \in 1..Len(df.rows)}

PCell(i, l) == At(prob_ts, prob_ts.rows[i], l)

\* C4: one row per distinct valid_time of the input, ascending; n_members
\* counts the input rows of that time; p_X * n_members = 100 * (number of
\* those rows with value >= threshold_X) for minor, moderate and major, so
\* 0 <= p_X <= 100; an empty input gives an empty table.
C4_ExceedanceRows ==
    ExceedComputed =>
        IF Len(df.rows) = 0 THEN prob_ts = EmptyFrame
        ELSE /\ Len(prob_ts.rows) = Cardinality(InputTimes)
             /\ {PCell(i, "valid_time") : i \in 1..Len(prob_ts.rows)} = InputTimes
             /\ \A i, j \in 1..Len(prob_ts.rows) :
                    i < j => PCell(i, "valid_time") < PCell(j, "valid_time")
             /\ \A i \in 1..Len(prob_ts.rows) :
                    LET tm == PCell(i, "valid_time")
                        n == PCell(i, "n_members")
                        ok(l, level) ==
                            /\ RMul(PCell(i, l), RInt(n))
                                 = RInt(100 * Cardinality(RowsAtOrAbove(tm, level)))
                            /\ RLe(RInt(0), PCell(i, l))
                            /\ RLe(PCell(i, l), RInt(100))
                    IN  /\ n = Cardinality(RowsAt(tm))
                        /\ ok("p_minor", thresholds.minor_ft)
                        /\ ok("p_moderate", thresholds.moderate_ft)
                        /\ ok("p_major", thresholds.major_ft)

\* two timestamps out of time order in the input, a probability strictly
\* between 0 and 100, and a member sitting exactly on the minor threshold
C4_Witness ==
    /\ pc = "exceed_done"
    /\ Len(prob_ts.rows) >= 2
    /\ At(df, df.rows[1], "valid_time") > At(df, df.rows[Len(df.rows)], "valid_time")
    /\ \E i \in 1..Len(prob_ts.rows) :
          /\ RLt(RInt(0), PCell(i, "p_minor")) /\ RLt(PCell(i, "p_minor"), RInt(100))
          /\ \E k \in RowsAt(PCell(i, "valid_time")) :
                At(df, df.rows[k], "stormtide_ft") = thresholds.minor_ft

\* C5 as stated: p10_ft <= mean_ft <= p90_ft in every row.
C5_MeanBetweenPercentiles ==
    ExceedComputed =>
        \A i \in 1..Len(prob_ts.rows) :
            /\ RLe(PCell(i, "p10_ft"), PCell(i, "mean_ft"))
            /\ RLe(PCell(i, "mean_ft"), PCell(i, "p90_ft"))

\* C5 amended: p10_ft <= p90_ft in every row, and p10_ft <= mean_ft <= p90_ft
\* in every row of at most 10 members.
C5_MeanBetweenPercentilesUpTo10 ==
    ExceedComputed =>
        \A i \in 1..Len(prob_ts.rows) :
            /\ RLe(PCell(i, "p10_ft"), PCell(i, "p90_ft"))
            /\ PCell(i, "n_members") <= 10 =>
                  /\ RLe(PCell(i, "p10_ft"), PCell(i, "mean_ft"))
                  /\ RLe(PCell(i, "mean_ft"), PCell(i, "p90_ft"))

\* a row of 10 members whose mean is strictly inside a nondegenerate band
C5_Witness ==
    /\ pc = "exceed_done"
    /\ \E i \in 1..Len(prob_ts.rows) :
          /\ PCell(i, "n_members") = 10
          /\ RLt(PCell(i, "p10_ft"), PCell(i, "mean_ft"))
          /\ RLt(PCell(i, "mean_ft"), PCell(i, "p90_ft"))

Gated == {i \in 1..Len(prob_ts.rows) : RLe(min_prob, PCell(i, "p_minor"))}

\* C6: with rows at or above the gate, start and end are the least and the
\* greatest valid_time among them and peak is the time of one of them with
\* the largest mean_ft; with none, start = end = None and peak is the time
\* of a row with the largest mean_ft of the table; all None for an empty
\* table.
C6_PeakWindow ==
    pc = "peak_done" =>
        LET all == 1..Len(prob_ts.rows)
            peakIn(S) ==
                \E k \in S : /\ peak.peak = IsoFormat(PCell(k, "valid_time"))
                             /\ \A j \in S : RLe(PCell(j, "mean_ft"), PCell(k, "mean_ft"))
        IN  IF all = {} THEN peak = PeakWindow(None, None, None)
            ELSE IF Gated = {}
            THEN peak.start = None /\ peak.end = None /\ peakIn(all)
            ELSE /\ \E k \in Gated :
                       /\ peak.start = IsoFormat(PCell(k, "valid_time"))
                       /\ \A j \in Gated : PCell(k, "valid_time") <= PCell(j, "valid_time")
                 /\ \E k \in Gated :
                       /\ peak.end = IsoFormat(PCell(k, "valid_time"))
                       /\ \A j \in Gated : PCell(k, "valid_time") >= PCell(j, "valid_time")
                 /\ peakIn(Gated)

\* a window of two gated rows whose peak is not the row of largest mean_ft
\* of the whole table
C6_Witness ==
    /\ pc = "peak_done"
    /\ Cardinality(Gated) >= 2
    /\ peak.start # peak.end
    /\ \E i \in 1..Len(prob_ts.rows) :
          \A k \in Gated : RLt(PCell(k, "mean_ft"), PCell(i, "mean_ft"))

\* C7: every row between start and end meets the gate.
C7_WindowContiguous ==
    (pc = "peak_done" /\ peak.start # None /\ peak.end # None) =>
        \A i \in 1..Len(prob_ts.rows) :
            (/\ ParseIso(peak.start) <= PCell(i, "valid_time")
             /\ PCell(i, "valid_time") <= ParseIso(peak.end)) => i \in Gated

(***************************************************************************)
(* Recommendation table of main (run_waveland.py lines 157-166).           *)
(***************************************************************************)
recommendation_advisory_first(p_minor, p_mod) ==
    IF RLe(RInt(70), p_minor) /\ RLe(RInt(60), p_mod) THEN "Warning Likely"
    ELSE IF RLe(RInt(60), p_minor) THEN "Advisory Likely"
    ELSE IF RLe(RInt(50), p_minor) /\ RLe(RInt(40), p_mod) THEN "Warning Possible"
    ELSE IF RLe(RInt(40), p_minor) THEN "Advisory Possible"
    ELSE "No Headline Suggested"

recommendation(p_minor, p_mod) ==
    IF RLe(RInt(70), p_minor) /\ RLe(RInt(60), p_mod) THEN "Warning Likely"
    ELSE IF RLe(RInt(50), p_minor) /\ RLe(RInt(40), p_mod) THEN "Warning Possible"
    ELSE IF RLe(RInt(60), p_minor) THEN "Advisory Likely"
    ELSE IF RLe(RInt(40), p_minor) THEN "Advisory Possible"
    ELSE "No Headline Suggested"

PeakProbs(p_minor, p_mod, p_maj) == [minor |-> p_minor, moderate |-> p_mod, major |-> p_maj]

(***************************************************************************)
(* SpecRec: the recommendation table evaluated on a pair of peak           *)
(* probabilities, then on pairs that are no lower in either component.     *)
(***************************************************************************)
\* probabilities are the multiples of 100/PGrid
PGrid == 20

GridProbs == {Rat(100 * k, PGrid) : k \in 0..PGrid}

InitRec ==
    /\ pc = "rec_start"
    /\ runs = 1
    /\ exc = ""
    /\ peak_probs \in {PeakProbs(a, b, RInt(0)) : a \in GridProbs, b \in GridProbs}
    /\ rec = None
    /\ min_prob = None /\ peak = None /\ conf = None
    /\ NoBias /\ NoInputs /\ NoFrames /\ NoTrend /\ NoOutputs

RecClassify ==
    /\ pc = "rec_start"
    /\ rec' = recommendation(peak_probs.minor, peak_probs.moderate)
    /\ pc' = "rec_done"
    /\ UNCHANGED <<runs, exc, biasVars, inputVars, frameVars, trendVars, outputs>>
    /\ UNCHANGED <<min_prob, peak, peak_probs, conf>>

\* the same table on probabilities that are at least the current ones
RecClassifyHigher ==
    /\ pc = "rec_done"
    /\ \E a \in GridProbs, b \in GridProbs :
          /\ RLe(peak_probs.minor, a) /\ RLe(peak_probs.moderate, b)
          /\ peak_probs' = PeakProbs(a, b, peak_probs.major)
          /\ rec' = recommendation(a, b)
    /\ runs' = IntMin(runs + 1, MaxRuns)
    /\ UNCHANGED <<pc, exc, biasVars, inputVars, frameVars, trendVars, outputs>>
    /\ UNCHANGED <<min_prob, peak, conf>>

NextRec == RecClassify \/ RecClassifyHigher

SpecRec == InitRec /\ [][NextRec]_vars

Severity(r) ==
    CASE r = "No Headline Suggested" -> 0
      [] r = "Advisory Possible" -> 1
      [] r = "Advisory Likely" -> 2
      [] r = "Warning Possible" -> 3
      [] r = "Warning Likely" -> 4

\* C10: when neither peak probability decreases, the category does not
\* become less severe.
C10_Monotonic ==
    [][(pc = "rec_done" /\ pc' = "rec_done") => Severity(rec) <= Severity(rec')]_vars

\* reclassified on higher probabilities, landing in Warning Possible with
\* p_minor below the Advisory Likely cutoff
C10_Witness ==
    /\ pc = "rec_done"
    /\ runs > 1
    /\ rec = "Warning Possible"
    /\ RLt(peak_probs.minor, RInt(60))

(***************************************************************************)
(* Schema normalizer and station series extractor (scripts/coops_fetch.py).*)
(***************************************************************************)
\* One member of the archive.  schema_ok is whether read_csv and the column
\* search succeed; each raw row carries whether its time and its value parse.
Source(name, schema_ok, rows) == [name |-> name, schema_ok |-> schema_ok, rows |-> rows]

RawRow(station, time_ok, tm, member, value_ok, raw) ==
    [station_id |-> station, time_ok |-> time_ok, valid_time |-> tm, member |-> member,
     value_ok |-> value_ok, stormtide_raw |-> raw]

\* abs(v - round(v)) < 1e-6
IsIntish(v) ==
    LET r == v[1] % v[2]
    IN  IntMin(r, v[2] - r) * 1000000 < v[2]

NormalizedLabels == <<"station_id", "valid_time", "member", "stormtide_ft", "scaling">>
NormalizedDtypes == <<"object", "datetime64", "object", "float64", "object">>

\* _parse_any_petss_csv with the fraction test at 0.8 or more
parse_any_petss_csv_from_80_percent(src) ==
    IF ~src.schema_ok THEN Raised("RuntimeError", EmptyFrame)
    ELSE
    LET timed == SelectSeq(src.rows, LAMBDA r : r.time_ok)
        kept == SelectSeq(timed, LAMBDA r : r.value_ok)
        n == Len(kept)
        intish == Len(SelectSeq(kept, LAMBDA r : IsIntish(r.stormtide_raw)))
        is_intish == 5 * intish >= 4 * n
        big == \E k \in 1..n : RLt(RInt(20), RAbs(kept[k].stormtide_raw))
        tenths == n > 0 /\ is_intish /\ big
        scaling == IF n = 0 THEN "unknown" ELSE IF tenths THEN "tenths_ft" ELSE "ft"
    IN  Returned(Frame(NormalizedLabels, NormalizedDtypes,
            [k \in 1..n |->
                <<kept[k].station_id, kept[k].valid_time, kept[k].member,
                  IF tenths THEN RDiv(kept[k].stormtide_raw, RInt(10))
                  ELSE kept[k].stormtide_raw,
                  scaling>>]))

\* _parse_any_petss_csv
parse_any_petss_csv(src) ==
    IF ~src.schema_ok THEN Raised("RuntimeError", EmptyFrame)
    ELSE
    LET timed == SelectSeq(src.rows, LAMBDA r : r.time_ok)
        kept == SelectSeq(timed, LAMBDA r : r.value_ok)
        n == Len(kept)
        intish == Len(SelectSeq(kept, LAMBDA r : IsIntish(r.stormtide_raw)))
        is_intish == 5 * intish > 4 * n
        big == \E k \in 1..n : RLt(RInt(20), RAbs(kept[k].stormtide_raw))
        tenths == n > 0 /\ is_intish /\ big
        scaling == IF n = 0 THEN "unknown" ELSE IF tenths THEN "tenths_ft" ELSE "ft"
    IN  Returned(Frame(NormalizedLabels, NormalizedDtypes,
            [k \in 1..n |->
                <<kept[k].station_id, kept[k].valid_time, kept[k].member,
                  IF tenths THEN RDiv(kept[k].stormtide_raw, RInt(10))
                  ELSE kept[k].stormtide_raw,
                  scaling>>]))

\* sort_values(l) on an integer column: ascending, equal keys in input order
SortValues(d, l) ==
    LET c == Positions(d, l)[1]
        keys == Ascending({d.rows[k][c] : k \in 1..Len(d.rows)})
    IN  Frame(d.labels, d.dtypes,
              Concat([i \in 1..Len(keys) |-> SelectSeq(d.rows, LAMBDA r : r[c] = keys[i])]))

\* extract_station_series
extract_station_series(all_csvs, station_id) ==
    LET sub(i) ==
            LET r == parse_any_petss_csv(all_csvs[i])
                mine == SelectSeq(r.value.rows, LAMBDA row : row[1] = station_id)
            IN  IF r.exc # "" THEN <<>>
                ELSE [k \in 1..Len(mine) |-> Append(mine[k], all_csvs[i].name)]
        rows == Concat([i \in 1..Len(all_csvs) |-> sub(i)])
    IN  IF rows = <<>>
        THEN Frame(SeriesLabels, <<"object", "object", "object", "object">>, <<>>)
        ELSE SortValues(Frame(Append(NormalizedLabels, "source_csv"),
                              Append(NormalizedDtypes, "object"), rows),
                        "valid_time")

(***************************************************************************)
(* Steps of main (scripts/run_waveland.py).                                *)
(***************************************************************************)
\* _coops_obs_to_df on data whose t and v all parse: empty data gives a
\* frame without columns, otherwise the points sorted by t
coops_obs_to_df(data) ==
    IF data = <<>> THEN EmptyFrame
    ELSE SortValues(Frame(<<"t", "v">>, <<"datetime64", "float64">>, data), "t")

\* Series.dt.floor("H"), an hour being 10 ticks
FloorHour(t) == t - (t % 10)

\* lines 89-102: the mean of petss_mean - obs_mean over the hours, not older
\* than now - 3 h, that both the forecast and the observations cover; None
\* when there are no observations or no such hour
verification_error(petss, obs, t_now) ==
    IF IsEmpty(obs) THEN None
    ELSE
    LET ptimes == {At(petss, petss.rows[k], "valid_time") : k \in 1..Len(petss.rows)}
        otimes == {FloorHour(At(obs, obs.rows[k], "t")) : k \in 1..Len(obs.rows)}
        merged == Ascending({tm \in ptimes \cap otimes : tm >= t_now - 3 * 10})
        petss_mean(tm) ==
            LET g == SelectSeq(petss.rows, LAMBDA r : At(petss, r, "valid_time") = tm)
            IN  Mean([k \in 1..Len(g) |-> At(petss, g[k], "stormtide_ft")])
        obs_mean(tm) ==
            LET g == SelectSeq(obs.rows, LAMBDA r : FloorHour(At(obs, r, "t")) = tm)
            IN  Mean([k \in 1..Len(g) |-> At(obs, g[k], "v")])
    IN  IF merged = <<>> THEN None
        ELSE Mean([i \in 1..Len(merged) |-> RSub(petss_mean(merged[i]), obs_mean(merged[i]))])

\* line 106: petss_df["stormtide_ft_bc"] = petss_df["stormtide_ft"] - bias
bias_correct(petss, rolling_bias_ft) ==
    WithColumn(petss, "stormtide_ft_bc", "float64",
               [k \in 1..Len(petss.rows) |->
                   RSub(At(petss, petss.rows[k], "stormtide_ft"), rolling_bias_ft)])

RECURSIVE IntSumRange(_, _, _)
IntSumRange(s, lo, hi) ==
    IF lo > hi THEN 0
    ELSE IF lo = hi THEN s[lo]
    ELSE LET mid == (lo + hi) \div 2
         IN  IntSumRange(s, lo, mid) + IntSumRange(s, mid + 1, hi)

IntSum(s) == IntSumRange(s, 1, Len(s))

Trend(used, adj) == [used |-> used, adj |-> adj]

\* lines 109-122 with the minimum of lines 111 moved to min_points
fit_trend_from(obs, min_points) ==
    IF Len(obs.rows) >= min_points
    THEN LET n == Len(obs.rows)
             t0 == CHOOSE t \in {At(obs, obs.rows[k], "t") : k \in 1..n} :
                       \A k \in 1..n : t <= At(obs, obs.rows[k], "t")
             x == [k \in 1..n |-> (At(obs, obs.rows[k], "t") - t0) * 360]
             y == [k \in 1..n |-> At(obs, obs.rows[k], "v")]
             ybar == Mean(y)
             denom == IntSum([k \in 1..n |-> x[k] * x[k]])
         IN  IF denom > 0
             THEN LET slope_ft_per_s ==
                          RDiv(RSum([k \in 1..n |-> RMul(RInt(x[k]), RSub(y[k], ybar))]),
                               RInt(denom))
                      slope_ft_per_hr == RMul(slope_ft_per_s, RInt(3600))
                  IN  Trend(TRUE, RMul(slope_ft_per_hr, RInt(6)))
             ELSE Trend(FALSE, RInt(0))
    ELSE Trend(FALSE, RInt(0))

fit_trend_min8(obs) == fit_trend_from(obs, 8)

\* lines 109-122: the trend fit of main
fit_trend(obs) == fit_trend_from(obs, 10)

\* lines 125-130: stormtide_ft_final, the bias-corrected value plus 0.30 of
\* the trend on the rows up to now + 12 h when the trend passes the guardrail
apply_trend_all_rows(petss, used, adj, t_now) ==
    WithColumn(petss, "stormtide_ft_final", "float64",
               [k \in 1..Len(petss.rows) |->
                   IF used /\ RLe(RAbs(adj), RInt(2))
                   THEN RAdd(At(petss, petss.rows[k], "stormtide_ft_bc"),
                             RMul(Rat(30, 100), adj))
                   ELSE At(petss, petss.rows[k], "stormtide_ft_bc")])

apply_trend(petss, used, adj, t_now) ==
    WithColumn(petss, "stormtide_ft_final", "float64",
               [k \in 1..Len(petss.rows) |->
                   IF /\ used /\ RLe(RAbs(adj), RInt(2))
                      /\ At(petss, petss.rows[k], "valid_time") <= t_now + 12 * 10
                   THEN RAdd(At(petss, petss.rows[k], "stormtide_ft_bc"),
                             RMul(Rat(30, 100), adj))
                   ELSE At(petss, petss.rows[k], "stormtide_ft_bc")])

\* lines 180-185 of the summary
trend_blend(used, adj) ==
    [used |-> used,
     projected_adjustment_ft_6h |-> IF used THEN adj ELSE RInt(0),
     weight |-> IF used THEN Rat(30, 100) ELSE RInt(0),
     applied_horizon_hours |-> IF used THEN 12 ELSE 0]

\* Series.median()
Median(s) ==
    LET sorted == SortSeq(s, RLt)
        n == Len(s)
    IN  IF n % 2 = 1 THEN sorted[(n + 1) \div 2]
        ELSE RDiv(RAdd(sorted[n \div 2], sorted[n \div 2 + 1]), RInt(2))

\* line 143 with typical_spread = 1.0
confidence(spread) == RMax(RInt(0), RMin(RInt(1), RSub(RInt(1), RDiv(Median(spread), RInt(1)))))

(***************************************************************************)
(* Spec: one run of main, from the download to the confidence index.       *)
(* Line 134 renames stormtide_ft_final to stormtide_ft while petss_df      *)
(* still has its own stormtide_ft column, so the frame handed to           *)
(* compute_exceedance_probs carries that label twice and the statistics    *)
(* of a non-empty table are Series objects, not floats.                    *)
(***************************************************************************)
\* most observation points returned by the water level service
MaxObs == 11

OtherStation == "8761724"

\* two members at 23:00, 30:00 and 37:00 (ticks 230, 300, 370), in feet or
\* in tenths of a foot
FeetRows(station) ==
    <<RawRow(station, TRUE, 230, 1, TRUE, Rat(3, 2)),
      RawRow(station, TRUE, 230, 2, TRUE, Rat(5, 2)),
      RawRow(station, TRUE, 300, 1, TRUE, Rat(3, 2)),
      RawRow(station, TRUE, 300, 2, TRUE, Rat(7, 2)),
      RawRow(station, TRUE, 370, 1, TRUE, Rat(5, 2)),
      RawRow(station, TRUE, 370, 2, TRUE, Rat(7, 2))>>

TenthsRows(station) ==
    [k \in 1..Len(FeetRows(station)) |->
        [FeetRows(station)[k] EXCEPT !.stormtide_raw = RMul(@, RInt(10))]]

\* rows out of time order, one with an unparsable time, one with an
\* unparsable value
DirtyRows(station) ==
    <<RawRow(station, TRUE, 300, 1, TRUE, Rat(5, 2)),
      RawRow(station, FALSE, 0, 1, TRUE, Rat(9, 2)),
      RawRow(station, TRUE, 230, 1, TRUE, Rat(3, 2)),
      RawRow(station, TRUE, 230, 2, FALSE, RInt(0))>>

Archives ==
    {<<>>,
     <<Source("bad.csv", FALSE, <<>>)>>,
     <<Source("other.csv", TRUE, FeetRows(OtherStation))>>,
     <<Source("feet.csv", TRUE, FeetRows(Station))>>,
     <<Source("bad.csv", FALSE, <<>>), Source("tenths.csv", TRUE, TenthsRows(Station))>>,
     <<Source("dirty.csv", TRUE, DirtyRows(Station)),
       Source("other.csv", TRUE, FeetRows(OtherStation))>>}

\* n observations from 23:00 on, step ticks apart, rising by slope per point
ObsData(n, step, slope) ==
    [i \in 1..n |-> <<230 + step * (i - 1), RAdd(RInt(1), RMul(slope, RInt(i - 1)))>>]

ObsChoices ==
    {ObsData(n, step, slope) :
        n \in 0..MaxObs, step \in {0, 1}, slope \in {RInt(0), Rat(1, 10), Rat(1, 5)}}

\* the run starts at 24:18
Nows == {243}

MainBiasFiles == {FileAbsent, FileJson(Rat(1, 2), 3), FileJson(Rat(1, 4), DefaultMaxN),
                  FileJson(RInt(0), -1)}

Init ==
    /\ pc = "start"
    /\ runs = 1
    /\ exc = ""
    /\ bias_file \in MainBiasFiles
    /\ objs = <<>> /\ bias_state = 0 /\ new_error = None
    /\ NoInputs /\ NoFrames /\ NoTrend /\ NoPeak /\ NoOutputs

Raise(e) == pc' = "raised" /\ exc' = e

\* lines 48-50
FetchPetss ==
    /\ pc = "start"
    /\ csvs' \in Archives
    /\ pc' = "fetched"
    /\ UNCHANGED <<runs, exc, biasVars, thresholds, obs_df, now, frameVars, trendVars,
                   peakVars, outputs>>

\* lines 48-50: no run directory, no tarball, or an HTTP error
FetchPetssFails ==
    /\ pc = "start"
    /\ Raise("RuntimeError")
    /\ UNCHANGED <<runs, biasVars, inputVars, frameVars, trendVars, peakVars, outputs>>

\* line 53
ExtractSeries ==
    /\ pc = "fetched"
    /\ petss_df' = extract_station_series(csvs, Station)
    /\ pc' = "extracted"
    /\ UNCHANGED <<runs, exc, biasVars, inputVars, df, prob_ts, trendVars, peakVars, outputs>>

\* lines 56-67 with an override, or with all three levels from MDAPI
ResolveThresholds ==
    /\ pc = "extracted"
    /\ thresholds' \in ThresholdChoices
    /\ pc' = "thresholds"
    /\ UNCHANGED <<runs, exc, biasVars, csvs, obs_df, now, frameVars, trendVars, peakVars,
                   outputs>>

\* lines 63-65: no override and a level missing from MDAPI
ThresholdsMissing ==
    /\ pc = "extracted"
    /\ Raise("RuntimeError")
    /\ UNCHANGED <<runs, biasVars, inputVars, frameVars, trendVars, peakVars, outputs>>

\* lines 70-81
FetchObs ==
    /\ pc = "thresholds"
    /\ now' \in Nows
    /\ \E data \in ObsChoices : obs_df' = coops_obs_to_df(data)
    /\ pc' = "observed"
    /\ UNCHANGED <<runs, exc, biasVars, csvs, thresholds, frameVars, trendVars, peakVars,
                   outputs>>

\* line 72: raise_for_status in fetch_recent_water_levels
FetchObsFails ==
    /\ pc = "thresholds"
    /\ now' \in Nows
    /\ Raise("HTTPError")
    /\ UNCHANGED <<runs, biasVars, csvs, thresholds, obs_df, frameVars, trendVars, peakVars,
                   outputs>>

\* lines 84-85
LoadBias ==
    /\ pc = "observed"
    /\ objs' = Append(objs, load_bias(bias_file))
    /\ bias_state' = Len(objs) + 1
    /\ pc' = "loaded"
    /\ UNCHANGED <<runs, exc, bias_file, new_error, inputVars, frameVars, trendVars,
                   peakVars, outputs>>

\* lines 89-103
Verify ==
    /\ pc = "loaded"
    /\ LET e == verification_error(petss_df, obs_df, now)
       IN  IF e = None
           THEN /\ pc' = "verified"
                /\ UNCHANGED <<exc, objs, bias_state, new_error>>
           ELSE LET r == call_update_bias(objs, bias_state, e, DefaultMaxN)
                IN  /\ new_error' = e
                    /\ objs' = r.objs
                    /\ bias_state' = r.ref
                    /\ exc' = r.exc
                    /\ pc' = IF r.exc = "" THEN "verified" ELSE "raised"
    /\ UNCHANGED <<runs, bias_file, inputVars, frameVars, trendVars, peakVars, outputs>>

\* line 106
BiasCorrect ==
    /\ pc = "verified"
    /\ petss_df' = bias_correct(petss_df, objs[bias_state].rolling_bias_ft)
    /\ pc' = "corrected"
    /\ UNCHANGED <<runs, exc, biasVars, inputVars, df, prob_ts, trendVars, peakVars, outputs>>

\* lines 109-122
FitTrend ==
    /\ pc = "corrected"
    /\ trend_used' = fit_trend(obs_df).used
    /\ trend_adj' = fit_trend(obs_df).adj
    /\ pc' = "trend"
    /\ UNCHANGED <<runs, exc, biasVars, inputVars, frameVars, peakVars, outputs>>

\* lines 125-130
ApplyTrend ==
    /\ pc = "trend"
    /\ petss_df' = apply_trend(petss_df, trend_used, trend_adj, now)
    /\ pc' = "blended"
    /\ UNCHANGED <<runs, exc, biasVars, inputVars, df, prob_ts, trendVars, peakVars, outputs>>

\* lines 133-138
Probabilities ==
    /\ pc = "blended"
    /\ df' = Rename(petss_df, "stormtide_ft_final", "stormtide_ft")
    /\ prob_ts' = compute_exceedance_probs(df', thresholds.minor_ft, thresholds.moderate_ft,
                                           thresholds.major_ft)
    /\ pc' = "probabilities"
    /\ UNCHANGED <<runs, exc, biasVars, inputVars, petss_df, trendVars, peakVars, outputs>>

\* lines 141-143: prob_ts["p90_ft"] is a KeyError on the frame without
\* columns; on columns of Series objects the difference is taken cell by cell
\* and median() / float() raise TypeError; on float columns conf is computed
Confidence ==
    /\ pc = "probabilities"
    /\ IF ~HasCol(prob_ts, "p90_ft") \/ ~HasCol(prob_ts, "p10_ft")
       THEN Raise("KeyError") /\ UNCHANGED <<prob_ts, conf>>
       ELSE LET n == Len(prob_ts.rows)
                object == prob_ts.dtypes[Positions(prob_ts, "p90_ft")[1]] = "object"
                p90(k) == At(prob_ts, prob_ts.rows[k], "p90_ft")
                p10(k) == At(prob_ts, prob_ts.rows[k], "p10_ft")
                spread ==
                    [k \in 1..n |->
                        IF object
                        THEN [j \in 1..Len(p90(k)) |-> RSub(p90(k)[j], p10(k)[j])]
                        ELSE RSub(p90(k), p10(k))]
            IN  /\ prob_ts' = WithColumn(prob_ts, "spread_ft",
                                         IF object THEN "object" ELSE "float64", spread)
                /\ IF object
                   THEN Raise("TypeError") /\ UNCHANGED conf
                   ELSE conf' = confidence(spread) /\ pc' = "confidence" /\ UNCHANGED exc
    /\ UNCHANGED <<runs, biasVars, inputVars, petss_df, df, trendVars, outputs>>
    /\ UNCHANGED <<min_prob, peak, peak_probs, rec>>

Next ==
    \/ FetchPetss \/ FetchPetssFails \/ ExtractSeries \/ ResolveThresholds
    \/ ThresholdsMissing \/ FetchObs \/ FetchObsFails \/ LoadBias \/ Verify
    \/ BiasCorrect \/ FitTrend \/ ApplyTrend \/ Probabilities \/ Confidence

Spec == Init /\ [][Next]_vars

(***************************************************************************)
(* Properties of the run.                                                  *)
(***************************************************************************)
\* the exceptions that come from outside main: a failed download, a level
\* missing from MDAPI, an HTTP error of the observation request
ExternalFailures == {"RuntimeError", "HTTPError"}

\* C3: when extract_station_series returned no rows, main raises no exception
\* of its own (only a failed request ends the run with one) and writes no
\* output file.
C3_EmptyExtractionEndsCleanly ==
    \/ pc \in {"start", "fetched"}
    \/ exc \in ExternalFailures /\ outputs = {}
    \/ Len(petss_df.rows) = 0 => (exc = "" /\ outputs = {})

Fitted == pc \in {"trend", "blended", "probabilities"}

ObsSeconds(k) == (At(obs_df, obs_df.rows[k], "t") - At(obs_df, obs_df.rows[1], "t")) * 360
ObsValue(k) == At(obs_df, obs_df.rows[k], "v")
ObsSx == IntSum([k \in 1..Len(obs_df.rows) |-> ObsSeconds(k)])
ObsSxx == IntSum([k \in 1..Len(obs_df.rows) |-> ObsSeconds(k) * ObsSeconds(k)])
ObsSy == RSum([k \in 1..Len(obs_df.rows) |-> ObsValue(k)])
ObsSxy == RSum([k \in 1..Len(obs_df.rows) |-> RMul(RInt(ObsSeconds(k)), ObsValue(k))])

\* once the trend is fitted: trend_used exactly when there are at least
\* min_points observations and sum x^2 is nonzero; then trend_adj is 6 h of
\* the slope sum x (y - mean y) / sum x^2, which multiplied out is
\* trend_adj * n * Sxx = 21600 * (n * Sxy - Sx * Sy); otherwise trend_adj = 0
TrendRule(min_points) ==
    Fitted =>
        LET n == Len(obs_df.rows)
        IN  /\ trend_used <=> (n >= min_points /\ ObsSxx # 0)
            /\ trend_used =>
                  RMul(trend_adj, RMul(RInt(n), RInt(ObsSxx)))
                    = RMul(RInt(21600),
                           RSub(RMul(RInt(n), ObsSxy), RMul(RInt(ObsSx), ObsSy)))
            /\ ~trend_used => trend_adj = RInt(0)

\* C8 as stated: the trend is computed exactly when the observation series
\* has at least 8 points and sum x^2 is nonzero.
C8_TrendFromEightPoints == TrendRule(8)

\* C8 amended: the trend is computed exactly when the observation series has
\* at least 10 points and sum x^2 is nonzero, and is then the 6 h projection
\* of the fitted slope; otherwise trend_used = false and trend_adj = 0.
C8_TrendFromTenPoints == TrendRule(10)

C8_Witness ==
    /\ pc = "trend"
    /\ Len(obs_df.rows) >= 10
    /\ trend_used
    /\ trend_adj # RInt(0)

Blended == pc \in {"blended", "probabilities"}

WithinGuardrail == RLe(RAbs(trend_adj), RInt(2))

BcValue(k) == At(petss_df, petss_df.rows[k], "stormtide_ft_bc")
FinalValue(k) == At(petss_df, petss_df.rows[k], "stormtide_ft_final")
WithinHorizon(k) == At(petss_df, petss_df.rows[k], "valid_time") <= now + 12 * 10

\* C9: in every forecast row the final value is bias-corrected + 0.30 *
\* trend_adj when a trend was computed, |trend_adj| <= 2 and the row is within
\* 12 h of now, and the bias-corrected value in every other case (for a
\* nonzero trend_adj the two values differ, so the final value is the blended
\* one exactly in that case); when |trend_adj| > 2 the summary's trend_blend
\* still has used = true and the numeric trend, and no row is modified.
C9_TrendBlend ==
    Blended =>
        /\ \A k \in 1..Len(petss_df.rows) :
              LET applies == trend_used /\ WithinGuardrail /\ WithinHorizon(k)
                  blended == RAdd(BcValue(k), RMul(Rat(30, 100), trend_adj))
              IN  /\ applies => FinalValue(k) = blended
                  /\ ~applies => FinalValue(k) = BcValue(k)
                  /\ trend_adj # RInt(0) => (FinalValue(k) = blended <=> applies)
        /\ (trend_used /\ ~WithinGuardrail) =>
              /\ trend_blend(trend_used, trend_adj).used
              /\ trend_blend(trend_used, trend_adj).projected_adjustment_ft_6h = trend_adj
              /\ \A k \in 1..Len(petss_df.rows) : FinalValue(k) = BcValue(k)

\* a trend within the guardrail, a row within the horizon that is moved and
\* a row beyond it that is not
C9_Witness ==
    /\ pc = "blended"
    /\ trend_used /\ WithinGuardrail /\ trend_adj # RInt(0)
    /\ \E k \in 1..Len(petss_df.rows) : WithinHorizon(k) /\ FinalValue(k) # BcValue(k)
    /\ \E k \in 1..Len(petss_df.rows) : ~WithinHorizon(k) /\ FinalValue(k) = BcValue(k)

\* the guardrail case: a computed trend above 2 ft
C9_GuardrailReached == pc = "blended" /\ trend_used /\ ~WithinGuardrail /\ petss_df.rows # <<>>

(***************************************************************************)
(* SpecExtract: extract_station_series on archives whose members come in   *)
(* every order.                                                            *)
(***************************************************************************)
\* most members of an archive
MaxSources == 3

\* members of an archive: three with rows of the target station that share
\* the time 23:00 (two of them with that one row only), one in tenths of a foot with rows out of time order, one that
\* does not parse, one of another station, one with unparsable cells
SourcePool ==
    {Source("a.csv", TRUE,
            <<RawRow(Station, TRUE, 230, 1, TRUE, Rat(3, 2)),
              RawRow(OtherStation, TRUE, 230, 1, TRUE, Rat(9, 2)),
              RawRow(Station, TRUE, 300, 1, TRUE, Rat(5, 2))>>),
     Source("b.csv", TRUE,
            <<RawRow(Station, TRUE, 230, 2, TRUE, Rat(7, 2))>>),
     Source("c.csv", TRUE,
            <<RawRow(Station, TRUE, 230, 3, TRUE, Rat(1, 2))>>),
     Source("tenths.csv", TRUE,
            <<RawRow(Station, TRUE, 370, 1, TRUE, RInt(25)),
              RawRow(Station, TRUE, 160, 1, TRUE, RInt(15))>>),
     Source("bad.csv", FALSE, <<>>),
     Source("other.csv", TRUE, FeetRows(OtherStation)),
     Source("dirty.csv", TRUE, DirtyRows(Station))}

\* the archives: up to MaxSources distinct members in some order
ArchiveOrders ==
    UNION {{a \in [1..n -> SourcePool] : \A i, j \in 1..n : i # j => a[i] # a[j]} :
              n \in 0..MaxSources}

InitExtract ==
    /\ pc = "extract_start"
    /\ runs = 1
    /\ exc = ""
    /\ csvs \in ArchiveOrders
    /\ thresholds = None /\ obs_df = None /\ now = None
    /\ NoBias /\ NoFrames /\ NoTrend /\ NoPeak /\ NoOutputs

\* petss_df = extract_station_series(csvs, station_id): no exception leaves
\* the function, the except clause of lines 119-120 swallows them
ExtractArchive ==
    /\ pc = "extract_start"
    /\ petss_df' = extract_station_series(csvs, Station)
    /\ pc' = "extract_done"
    /\ UNCHANGED <<runs, exc, biasVars, inputVars, df, prob_ts, trendVars, peakVars, outputs>>

NextExtract == ExtractArchive

SpecExtract == InitExtract /\ [][NextExtract]_vars

\* the normalized rows of member i, each with the member's name, when the
\* member normalizes; none when it does not
NormalizedRowsOf(i) ==
    LET r == parse_any_petss_csv(csvs[i])
    IN  IF r.exc # "" THEN <<>>
        ELSE [k \in 1..Len(r.value.rows) |-> Append(r.value.rows[k], csvs[i].name)]

\* how often row occurs among the rows of the target station in the members
ExpectedCount(row) ==
    Cardinality(UNION {{<<i, k>> : k \in {k \in 1..Len(NormalizedRowsOf(i)) :
                                            /\ NormalizedRowsOf(i)[k] = row
                                            /\ row[1] = Station}} :
                          i \in 1..Len(csvs)})

ExpectedRows ==
    UNION {{NormalizedRowsOf(i)[k] : k \in 1..Len(NormalizedRowsOf(i))} : i \in 1..Len(csvs)}

ReturnedCount(row) == Cardinality({k \in 1..Len(petss_df.rows) : petss_df.rows[k] = row})

\* the rows returned are the normalized rows of the target station from the
\* members that normalize, each as often as it occurs, ascending by
\* valid_time, and nothing is raised
ExtractorRowsSorted ==
    /\ exc = ""
    /\ \A row \in ExpectedRows \cup {petss_df.rows[k] : k \in 1..Len(petss_df.rows)} :
          ReturnedCount(row) = ExpectedCount(row)
    /\ \A k \in 1..Len(petss_df.rows) - 1 :
          petss_df.rows[k][2] <= petss_df.rows[k + 1][2]

\* the archive with its members in the order f
Reordered(f) == [i \in 1..Len(csvs) |-> csvs[f[i]]]

\* every order of the members gives the same sequence of rows
ExtractorOrderIndependent ==
    \A f \in Permutations(1..Len(csvs)) :
        extract_station_series(Reordered(f), Station).rows = petss_df.rows

\* C11: extract_station_series returns exactly the normalized rows of the
\* target station from the members that normalize, ascending by valid_time,
\* failing members contribute nothing and raise nothing, and the sequence of
\* rows returned is the same for every order of the members.
C11_ExtractorContract ==
    pc = "extract_done" => ExtractorRowsSorted /\ ExtractorOrderIndependent

\* the part of C11 without the order of the members
C11_RowsSortedOnly == pc = "extract_done" => ExtractorRowsSorted

(***************************************************************************)
(* SpecNormalize: _parse_any_petss_csv on one source.                      *)
(***************************************************************************)
\* most rows of a source drawn cell by cell
MaxSourceRows == 5

\* the value cells of a row: an integer below 20, a negative integer beyond
\* 20, the integer 20, fractions below and above 20
ValueCells == {RInt(1), RInt(-30), RInt(20), Rat(6, 5), Rat(43, 2)}

\* rows of a source: a value cell with a time that parses, or the value 30
\* with a time that does not
RowCells ==
    {RawRow(Station, TRUE, 230, 1, TRUE, v) : v \in ValueCells}
    \cup {RawRow(Station, FALSE, 0, 1, TRUE, RInt(30))}

ValuesSource(name, values) ==
    Source(name, TRUE, [k \in 1..Len(values) |-> RawRow(Station, TRUE, 230, k, TRUE, values[k])])

\* sources written out: 10, 20, ..., 300; 1.2, 3.4, 2.1; values 1e-7 and
\* 1e-5 away from 30; a value that does not parse next to 30
ExampleSources ==
    {ValuesSource("tenths.csv", [k \in 1..30 |-> RInt(10 * k)]),
     ValuesSource("feet.csv", <<Rat(12, 10), Rat(34, 10), Rat(21, 10)>>),
     ValuesSource("near.csv", <<Rat(300000001, 10000000)>>),
     ValuesSource("far.csv", <<Rat(3000001, 100000)>>),
     Source("nan.csv", TRUE, <<RawRow(Station, TRUE, 230, 1, FALSE, RInt(0)),
                               RawRow(Station, TRUE, 230, 2, TRUE, RInt(30))>>)}

InitNormalize ==
    /\ pc = "normalize_start"
    /\ runs = 1
    /\ exc = ""
    /\ \/ \E src \in ExampleSources : csvs = <<src>>
       \/ \E n \in 0..MaxSourceRows : \E rows \in [1..n -> RowCells] :
             csvs = <<Source("cells.csv", TRUE, rows)>>
    /\ thresholds = None /\ obs_df = None /\ now = None
    /\ NoBias /\ NoFrames /\ NoTrend /\ NoPeak /\ NoOutputs

\* df = _parse_any_petss_csv(b), line 118
NormalizeSource ==
    /\ pc = "normalize_start"
    /\ LET r == parse_any_petss_csv(csvs[1])
       IN  /\ df' = r.value
           /\ exc' = r.exc
           /\ pc' = IF r.exc = "" THEN "normalize_done" ELSE "raised"
    /\ UNCHANGED <<runs, biasVars, inputVars, petss_df, prob_ts, trendVars, peakVars, outputs>>

NextNormalize == NormalizeSource

SpecNormalize == InitNormalize /\ [][NextNormalize]_vars

\* the rows of the source that survive time and value parsing
Surviving == SelectSeq(csvs[1].rows, LAMBDA r : r.time_ok /\ r.value_ok)

\* v is less than 1e-6 away from an integer
NearInteger(v) ==
    LET below == v[1] % v[2]
        above == v[2] - below
        most == (v[2] - 1) \div 1000000
    IN  below <= most \/ above <= most

NearIntegerCount == Cardinality({k \in 1..Len(Surviving) : NearInteger(Surviving[k].stormtide_raw)})

\* more than 0.8 of the surviving values near an integer and one beyond 20
TenthsExpected ==
    /\ 10 * NearIntegerCount > 8 * Len(Surviving)
    /\ \E k \in 1..Len(Surviving) :
          \/ RLt(RInt(20), Surviving[k].stormtide_raw)
          \/ RLt(Surviving[k].stormtide_raw, RInt(-20))

\* C12: over the rows of a source that survive time and value parsing, when
\* more than 0.8 of the values are within 1e-6 of an integer and the largest
\* absolute value is above 20, every value is divided by 10 and every row is
\* tagged tenths_ft; otherwise the values are kept and tagged ft; without a
\* surviving row the result has no row.
C12_ScalingDetection ==
    pc = "normalize_done" =>
        /\ Len(df.rows) = Len(Surviving)
        /\ HasCol(df, "scaling")
        /\ \A k \in 1..Len(df.rows) :
              LET raw == Surviving[k].stormtide_raw
                  value == At(df, df.rows[k], "stormtide_ft")
                  tag == At(df, df.rows[k], "scaling")
              IN  IF TenthsExpected
                  THEN RMul(value, RInt(10)) = raw /\ tag = "tenths_ft"
                  ELSE value = raw /\ tag = "ft"

\* the series 10, 20, ..., 300 comes back as 1, 2, ..., 30 tagged tenths_ft
C12_Witness ==
    /\ pc = "normalize_done"
    /\ csvs[1].name = "tenths.csv"
    /\ Len(df.rows) = 30
    /\ \A k \in 1..30 : /\ At(df, df.rows[k], "stormtide_ft") = RInt(k)
                        /\ At(df, df.rows[k], "scaling") = "tenths_ft"

\* the series 1.2, 3.4, 2.1 is kept and tagged ft
C12_FeetExample ==
    /\ pc = "normalize_done"
    /\ csvs[1].name = "feet.csv"
    /\ \A k \in 1..3 : /\ At(df, df.rows[k], "stormtide_ft") = Surviving[k].stormtide_raw
                       /\ At(df, df.rows[k], "scaling") = "ft"

\* four of five values near an integer, one of them beyond 20: kept in feet
C12_FourOfFive ==
    /\ pc = "normalize_done"
    /\ Len(Surviving) = 5 /\ NearIntegerCount = 4
    /\ \E k \in 1..5 : RLt(RInt(20), RAbs(Surviving[k].stormtide_raw))
    /\ \A k \in 1..5 : At(df, df.rows[k], "scaling") = "ft"

(***************************************************************************)
(* SpecConf: lines 133-146 of main on a frame whose stormtide_ft label     *)
(* names one column: the exceedance table, the confidence index, the peak. *)
(***************************************************************************)
InitConf ==
    /\ pc = "conf_start"
    /\ runs = 1
    /\ exc = ""
    /\ df \in DeepTables \cup WideTables
    /\ thresholds \in ThresholdChoices
    /\ min_prob = RInt(40)
    /\ petss_df = None /\ prob_ts = None
    /\ peak = None /\ peak_probs = None /\ rec = None /\ conf = None
    /\ csvs = None /\ obs_df = None /\ now = None
    /\ NoBias /\ NoTrend /\ NoOutputs

\* lines 133-138
ConfProbabilities ==
    /\ pc = "conf_start"
    /\ prob_ts' = compute_exceedance_probs(df, thresholds.minor_ft, thresholds.moderate_ft,
                                           thresholds.major_ft)
    /\ pc' = "probabilities"
    /\ UNCHANGED <<runs, exc, biasVars, inputVars, petss_df, df, trendVars, peakVars, outputs>>

\* line 146: pick_peak_window(prob_ts, min_prob=40.0)
ConfPickPeak ==
    /\ pc = "confidence"
    /\ peak' = pick_peak_window(prob_ts, min_prob)
    /\ pc' = "conf_peak"
    /\ UNCHANGED <<runs, exc, biasVars, inputVars, frameVars, trendVars, outputs>>
    /\ UNCHANGED <<min_prob, peak_probs, rec, conf>>

NextConf == ConfProbabilities \/ Confidence \/ ConfPickPeak

SpecConf == InitConf /\ [][NextConf]_vars

\* the rows of the exceedance table at the peak time
PeakRows == {k \in 1..Len(prob_ts.rows) :
                At(prob_ts, prob_ts.rows[k], "valid_time") = ParseIso(peak.peak)}

SpreadOf(k) == RSub(At(prob_ts, prob_ts.rows[k], "p90_ft"), At(prob_ts, prob_ts.rows[k], "p10_ft"))

Clamp01(v) == IF RLt(v, RInt(0)) THEN RInt(0) ELSE IF RLt(RInt(1), v) THEN RInt(1) ELSE v

\* the confidence index lies in [0, 1]
C13_ConfidenceInRange ==
    pc \in {"confidence", "conf_peak"} => RLe(RInt(0), conf) /\ RLe(conf, RInt(1))

C13_ConfidenceFromMedianSpread ==
    pc = "conf_peak" =>
        LET n == Len(prob_ts.rows)
            spread == [k \in 1..n |-> SpreadOf(k)]
            below(v) == Cardinality({k \in 1..n : RLt(spread[k], v)})
            above(v) == Cardinality({k \in 1..n : RLt(v, spread[k])})
        IN  \E v \in {RDiv(RAdd(spread[i], spread[j]), RInt(2)) : i, j \in 1..n} :
               /\ 2 * below(v) <= n /\ 2 * above(v) <= n
               /\ n % 2 = 1 => v \in {spread[i] : i \in 1..n}
               /\ conf = Clamp01(RSub(RInt(1), v))

(***************************************************************************)
(* SpecLife: one run of main by its effects on the bias state and on the   *)
(* files: the fetches (lines 48-81), load_bias (85), the verification and  *)
(* update_bias (89-103), the computation up to the recommendation          *)
(* (106-166) as a step that ends with a recommendation or with an          *)
(* exception, the three output files (225-231), save_bias (234).           *)
(***************************************************************************)
SummaryFile == "outputs/waveland_summary.json"
TimeseriesFile == "outputs/waveland_timeseries.json"
PointFile == "outputs/waveland_point.geojson"
AllOutputs == {SummaryFile, TimeseriesFile, PointFile}

\* peak probabilities, one pair for each recommendation
LifeProbs ==
    {PeakProbs(RInt(0), RInt(0), RInt(0)), PeakProbs(RInt(45), RInt(0), RInt(0)),
     PeakProbs(RInt(65), RInt(10), RInt(0)), PeakProbs(RInt(55), RInt(45), RInt(5)),
     PeakProbs(RInt(80), RInt(70), RInt(20))}

InitLife ==
    /\ pc = "life_start"
    /\ runs = 1
    /\ exc = ""
    /\ bias_file \in BiasFiles
    /\ objs = <<>>
    /\ bias_state = 0
    /\ new_error = None
    /\ NoInputs /\ NoFrames /\ NoTrend /\ NoPeak /\ NoOutputs

\* lines 48-81: a download, the thresholds or the observation request fails
LifeFetchFails ==
    /\ pc = "life_start"
    /\ \E e \in ExternalFailures : Raise(e)
    /\ UNCHANGED <<runs, biasVars, inputVars, frameVars, trendVars, peakVars, outputs>>

\* line 85: bias_state = load_bias(bias_path)
LifeLoad ==
    /\ pc = "life_start"
    /\ objs' = Append(objs, load_bias(bias_file))
    /\ bias_state' = Len(objs) + 1
    /\ pc' = "life_loaded"
    /\ UNCHANGED <<runs, exc, bias_file, new_error>>
    /\ UNCHANGED <<inputVars, frameVars, trendVars, peakVars, outputs>>

\* lines 89-103 with an overlap of forecast and observations
LifeUpdate ==
    /\ pc = "life_loaded"
    /\ \E e \in Errors :
         LET r == call_update_bias(objs, bias_state, e, DefaultMaxN)
         IN  /\ new_error' = e
             /\ objs' = r.objs
             /\ bias_state' = r.ref
             /\ exc' = r.exc
             /\ pc' = IF r.exc = "" THEN "life_verified" ELSE "raised"
    /\ UNCHANGED <<runs, bias_file>>
    /\ UNCHANGED <<inputVars, frameVars, trendVars, peakVars, outputs>>

\* lines 89-103 without observations or without an overlap
LifeNoUpdate ==
    /\ pc = "life_loaded"
    /\ pc' = "life_verified"
    /\ UNCHANGED <<runs, exc, biasVars, inputVars, frameVars, trendVars, peakVars, outputs>>

\* lines 106-166 end with the peak probabilities and the recommendation
LifeCompute ==
    /\ pc = "life_verified"
    /\ peak_probs' \in LifeProbs
    /\ rec' = recommendation(peak_probs'.minor, peak_probs'.moderate)
    /\ pc' = "life_computed"
    /\ UNCHANGED <<runs, exc, biasVars, inputVars, frameVars, trendVars, outputs>>
    /\ UNCHANGED <<min_prob, peak, conf>>

\* lines 106-166 raise (KeyError of line 141, TypeError of line 143)
LifeComputeFails ==
    /\ pc = "life_verified"
    /\ \E e \in {"KeyError", "TypeError"} : Raise(e)
    /\ UNCHANGED <<runs, biasVars, inputVars, frameVars, trendVars, peakVars, outputs>>

\* lines 226-227
LifeWriteSummary ==
    /\ pc = "life_computed"
    /\ outputs' = outputs \cup {SummaryFile}
    /\ pc' = "life_summary"
    /\ UNCHANGED <<runs, exc, biasVars, inputVars, frameVars, trendVars, peakVars>>

\* lines 228-229
LifeWriteTimeseries ==
    /\ pc = "life_summary"
    /\ outputs' = outputs \cup {TimeseriesFile}
    /\ pc' = "life_timeseries"
    /\ UNCHANGED <<runs, exc, biasVars, inputVars, frameVars, trendVars, peakVars>>

\* lines 230-231
LifeWritePoint ==
    /\ pc = "life_timeseries"
    /\ outputs' = outputs \cup {PointFile}
    /\ pc' = "life_point"
    /\ UNCHANGED <<runs, exc, biasVars, inputVars, frameVars, trendVars, peakVars>>

\* save_bias moved in front of the output files
LifeSaveBeforeOutputs ==
    /\ pc = "life_computed"
    /\ bias_file' = save_bias(objs[bias_state])
    /\ pc' = "life_done"
    /\ UNCHANGED <<runs, exc, objs, bias_state, new_error>>
    /\ UNCHANGED <<inputVars, frameVars, trendVars, peakVars, outputs>>

\* line 234: save_bias(bias_path, bias_state)
LifeSave ==
    /\ pc = "life_point"
    /\ bias_file' = save_bias(objs[bias_state])
    /\ pc' = "life_done"
    /\ UNCHANGED <<runs, exc, objs, bias_state, new_error>>
    /\ UNCHANGED <<inputVars, frameVars, trendVars, peakVars, outputs>>

NextLife ==
    \/ LifeFetchFails \/ LifeLoad \/ LifeUpdate \/ LifeNoUpdate \/ LifeCompute
    \/ LifeComputeFails \/ LifeWriteSummary \/ LifeWriteTimeseries \/ LifeWritePoint
    \/ LifeSave

SpecLife == InitLife /\ [][NextLife]_vars

Writing == {"life_summary", "life_timeseries", "life_point"}

\* what holds at each point of a run
LifeInv ==
    /\ pc = "life_start" => objs = <<>> /\ bias_state = 0
    /\ pc \in {"life_loaded", "life_verified", "life_computed"} \cup Writing =>
          /\ Len(objs) \in {1, 2}
          /\ objs[1] = load_bias(bias_file)
          /\ bias_state = Len(objs)
    /\ pc = "life_loaded" => Len(objs) = 1
    /\ pc \in {"life_computed", "life_done"} \cup Writing =>
          /\ exc = ""
          /\ rec = recommendation(peak_probs.minor, peak_probs.moderate)
    /\ outputs # {} => pc \in Writing \cup {"life_done"}
    /\ pc = "raised" => exc # "" /\ outputs = {}
    /\ pc = "life_done" =>
          /\ outputs = AllOutputs
          /\ Len(objs) \in {1, 2}
          /\ bias_file = save_bias(objs[Len(objs)])

\* what a step of a run may change
LifeStep ==
    /\ objs' # objs =>
          \/ pc = "life_start" /\ Len(objs') = 1
          \/ pc = "life_loaded" /\ pc' = "life_verified" /\ Len(objs') = 2 /\ objs'[1] = objs[1]
    /\ outputs' # outputs =>
          /\ pc \in {"life_computed", "life_summary", "life_timeseries"}
          /\ outputs \subseteq outputs'
          /\ bias_file' = bias_file
    /\ bias_file' # bias_file =>
          /\ pc = "life_point" /\ pc' = "life_done"
          /\ outputs = AllOutputs /\ outputs' = outputs
    /\ pc' = "raised" => bias_file' = bias_file /\ outputs' = {}
    /\ pc \in {"life_done", "raised"} => UNCHANGED vars

\* C14: in a run the bias state is loaded once and before any use,
\* update_bias is applied at most once, save_bias runs at most once and only
\* as the last step, after the computation has succeeded and all output
\* files are written; no output file is written before the recommendation is
\* computed, and a run that aborts leaves the bias file and the output files
\* unwritten.
C14_RunLifecycle == []LifeInv /\ [][LifeStep]_vars

\* a run that updated the bias, wrote the three files and saved a bias file
\* that differs from the one it loaded
C14_Witness ==
    /\ pc = "life_done"
    /\ Len(objs) = 2
    /\ outputs = AllOutputs
    /\ bias_file = save_bias(objs[2])
    /\ objs[2] # objs[1]

\* a run that aborts after update_bias
C14_AbortAfterUpdate ==
    /\ pc = "raised"
    /\ Len(objs) = 2
    /\ exc = "KeyError"
    /\ outputs = {}
    /\ objs[1] = load_bias(bias_file)

====
